---- MODULE Spec2Model ----
(***************************************************************************)
(* A model of lab4b.c: a temperature sampler (the main thread), a button   *)
(* watcher thread (check_button) and a command reader thread               *)
(* (get_commands) which share the globals user_int, gen_reports, period    *)
(* and scale, and which are shut down through the SIGINT handler.          *)
(***************************************************************************)
EXTENDS Integers, Sequences, FiniteSets, TLC

(***************************************************************************)
(* Bounds of the model.                                                    *)
(***************************************************************************)
\* Sample Records the sampler may start before the model stops it.
MaxSamples == 2
\* SIGINTs sent to the process from outside (^C, kill -INT).
MaxSigints == 1
\* Times the physical button is pushed down.
MaxPresses == 1

(***************************************************************************)
(* Program constants.                                                      *)
(***************************************************************************)
\* char buff[128] of get_commands.
BuffSize == 128
\* The descriptor open() returns for the log: 0, 1 and 2 are taken.
LogFd == 3
\* unsigned int is 32 bits wide (sleep() takes one): two halves of 16 bits,
\* each below HalfWord.
HalfWord == 65536

SIGINT == "SIGINT"
NUL == ""

(***************************************************************************)
(* Bytes and C strings.  A byte is a one-character string, NUL the empty   *)
(* one; a C array is a sequence, C index i being element i + 1.            *)
(***************************************************************************)
Digits == <<"0", "1", "2", "3", "4", "5", "6", "7", "8", "9">>

IsDigit(c) == \E d \in 1..10 : Digits[d] = c

DigitVal(c) == (CHOOSE d \in 1..10 : Digits[d] = c) - 1

IsSpace(c) == c \in {" ", "\n", "\t", "\r"}

\* strncmp(lit, b, n) == 0 for a literal of at least n bytes without NUL:
\* the first n bytes of b are those of lit.
StrncmpEq(lit, b, n) == \A i \in 1..n : b[i] = lit[i]

RECURSIVE AtoiDigits(_, _, _)
\* The digit run of atoi: accumulate while the byte at C index i is a digit.
AtoiDigits(b, i, acc) ==
  IF i + 1 <= Len(b) /\ IsDigit(b[i + 1])
  THEN AtoiDigits(b, i + 1, acc * 10 + DigitVal(b[i + 1]))
  ELSE acc

RECURSIVE AtoiSkip(_, _)
\* The leading white space atoi skips, from C index i.
AtoiSkip(b, i) ==
  IF i + 1 <= Len(b) /\ IsSpace(b[i + 1]) THEN AtoiSkip(b, i + 1) ELSE i

\* atoi(&b[i]): white space, an optional sign, then decimal digits; 0 when
\* no digit follows.
Atoi(b, i) ==
  LET j == AtoiSkip(b, i)
      c == IF j + 1 <= Len(b) THEN b[j + 1] ELSE NUL
  IN  IF c = "-" THEN 0 - AtoiDigits(b, j + 1, 0)
      ELSE IF c = "+" THEN AtoiDigits(b, j + 1, 0)
      ELSE AtoiDigits(b, j, 0)

\* read(0, buff, 128) returning the chunk c: its bytes replace the first
\* Len(c) bytes of buff, the others keep what they held.
ReadInto(b, c) == [i \in 1..Len(b) |-> IF i <= Len(c) THEN c[i] ELSE b[i]]

\* The conversion of an int argument n to the unsigned int sleep() takes,
\* n modulo 2^32, as its two 16-bit halves (the value is hi * 2^16 + lo).
\* For n < 0 it is 2^32 + n, the bitwise complement of -n - 1.
ToUnsigned(n) ==
  IF n >= 0
  THEN [hi |-> n \div HalfWord, lo |-> n % HalfWord]
  ELSE [hi |-> (HalfWord - 1) - ((0 - n - 1) \div HalfWord),
        lo |-> (HalfWord - 1) - ((0 - n - 1) % HalfWord)]

(***************************************************************************)
(* The input stream: what the successive read() calls on stdin return.  A  *)
(* terminal in canonical mode returns one line per read; a pipe may return *)
(* a line without its newline; the end of input returns no byte at all.    *)
(***************************************************************************)
Off == <<"O", "F", "F", "\n">>
Stop == <<"S", "T", "O", "P", "\n">>
Start == <<"S", "T", "A", "R", "T", "\n">>
ScaleC == <<"S", "C", "A", "L", "E", "=", "C", "\n">>
ScaleF == <<"S", "C", "A", "L", "E", "=", "F", "\n">>
Period5 == <<"P", "E", "R", "I", "O", "D", "=", "5", "\n">>
Period0 == <<"P", "E", "R", "I", "O", "D", "=", "0", "\n">>
Bogus == <<"B", "O", "G", "U", "S", "\n">>
EndOfInput == << >>
\* Lines that begin like a command, or nearly.
Office == <<"O", "F", "F", "I", "C", "E", "\n">>
Stopped == <<"S", "T", "O", "P", "P", "E", "D", "\n">>
LowerOff == <<"o", "f", "f", "\n">>
Period50 == <<"P", "E", "R", "I", "O", "D", "=", "5", "0", "\n">>
PeriodNeg == <<"P", "E", "R", "I", "O", "D", "=", "-", "1", "\n">>
\* Chunks without a newline, as a pipe or an end-of-file key (^D) typed in
\* the middle of a line delivers them.
Period7 == <<"P", "E", "R", "I", "O", "D", "=", "7">>
JustS == <<"S">>

\* The input streams the model runs the program on: any prefix of one may
\* be read, at any pace.
Scripts ==
  { << Stop, Start, Off >>,
    << Off >>,
    << Period5, Period0 >>,
    << Bogus, ScaleC, ScaleF >>,
    << Stop, EndOfInput >> }

ZeroBuff == [i \in 1..BuffSize |-> NUL]
JunkBuff == [i \in 1..BuffSize |-> "?"]

\* The input stream together with what buff holds before the first read:
\* buff is an uninitialized automatic array, so anything.
Starts ==
  (Scripts \X {ZeroBuff}) \cup ({<< EndOfInput, Period5 >>} \X {JunkBuff})

\* The input streams that exercise the parsing of the commands: prefixes,
\* letter case, numbers, and chunks shorter than the line before them.
ReaderScripts ==
  { << Period50, Period7, PeriodNeg >>,
    << LowerOff, Stopped, JustS >>,
    << Office, Start >> }

ReaderStarts == ReaderScripts \X {ZeroBuff}

\* period when the loop starts: 1, the program being run without --period.
StartPeriods == {1}

\* scale when the loop starts: 'F', the program being run without --scale.
StartScales == {"F"}

VARIABLES
  user_int,     \* volatile int user_int
  gen_reports,  \* volatile int gen_reports
  period,       \* int period
  scale,        \* char scale
  resetHand,    \* whether signal() installs a one-shot handler (System V)
  sigdisp,      \* the disposition of SIGINT: "handler" or "default"
  logfile,      \* whether --log named a file (logfile != NULL)
  logOpen,      \* whether descriptor logfd is open
  ioOpen,       \* whether the mraa contexts adc_a0 and button are open
  pcMain,       \* where the main thread is
  sleepDur,     \* the argument of the sleep() the sampler last started
  pcCmd,        \* where get_commands is
  buff,         \* buff of get_commands
  nbytes,       \* nbytes of get_commands: what its last read() returned
  input,        \* the chunks stdin has still to deliver
  pcBtn,        \* where check_button is
  button,       \* the level mraa_gpio_read returns now
  presses,      \* times the button has been pushed
  out,          \* the records written to stdout, in order
  err,          \* the diagnostics written to stderr, in order
  status,       \* "running", "exit0", "exit1" or "killed" (by SIGINT)
  sigints,      \* SIGINTs sent from outside so far
  ioError,      \* history: an I/O call failed for a reason outside the program
  triggers,     \* history: shutdown triggers so far (raise or outside SIGINT)
  lateSamples,  \* history: Sample Records written since user_int was set
  lateCmds,     \* history: chunks applied since user_int was set
  stopSamples,  \* history: Sample Records written since reporting was disabled
  awaiting      \* history: START re-enabled reporting and no record followed yet

vars ==
  << user_int, gen_reports, period, scale, resetHand, sigdisp, logfile,
     logOpen, ioOpen, pcMain, sleepDur, pcCmd, buff, nbytes, input, pcBtn,
     button, presses, out, err, status, sigints, ioError, triggers,
     lateSamples, lateCmds, stopSamples, awaiting >>

globals == << user_int, gen_reports, period, scale >>
mainVars == << pcMain, sleepDur >>
cmdVars == << pcCmd, buff, nbytes, input >>
btnVars == << pcBtn >>
envVars == << button, presses, sigints >>
sigVars == << resetHand, sigdisp >>
resVars == << logfile, logOpen, ioOpen >>
histVars ==
  << ioError, triggers, lateSamples, lateCmds, stopSamples, awaiting >>

\* The Sample Records on stdout.
NSamples == Cardinality({i \in DOMAIN out : out[i] = "SAMPLE"})

\* The Shutdown Records on stdout.
NShutdown == Cardinality({i \in DOMAIN out : out[i] = "SHUTDOWN"})

\* fd of get_commands: the value of logfd when the thread starts.
fd == IF logfile THEN LogFd ELSE -1

(***************************************************************************)
(* The state when main has parsed its options, opened the log and the mraa *)
(* contexts, and created the two threads (lines 77 to 152).                *)
(***************************************************************************)
InitOn(starts) ==
  /\ user_int = 0
  /\ gen_reports = 1
  /\ period \in StartPeriods
  /\ scale \in StartScales
  /\ resetHand \in BOOLEAN
  /\ sigdisp = "handler"
  /\ logfile \in BOOLEAN
  /\ logOpen = logfile
  /\ ioOpen = TRUE
  /\ pcMain = "while"
  /\ sleepDur = ToUnsigned(0)
  /\ pcCmd = "while"
  /\ \E st \in starts : input = st[1] /\ buff = st[2]
  /\ nbytes = 0
  /\ pcBtn = "while"
  /\ button = 0
  /\ presses = 0
  /\ out = << >>
  /\ err = << >>
  /\ status = "running"
  /\ sigints = 0
  /\ ioError = FALSE
  /\ triggers = 0
  /\ lateSamples = 0
  /\ lateCmds = 0
  /\ stopSamples = 0
  /\ awaiting = FALSE

Init == InitOn(Starts)

(***************************************************************************)
(* Signals.  signal(SIGINT, signal_handler) at line 77 leaves it to the    *)
(* C library whether the handler stays installed (BSD semantics) or the    *)
(* disposition returns to the default when the handler is entered (System  *)
(* V semantics, what glibc gives a file that defines _XOPEN_SOURCE as line *)
(* 6 does): resetHand is the build's choice.  The default action of        *)
(* SIGINT ends the process.                                                *)
(***************************************************************************)
\* A handler that flips the flag instead of setting it.
signal_handler_Toggle(sig) == IF sig = SIGINT THEN 1 - user_int ELSE user_int

\* signal_handler(sig): the value it leaves in user_int.
signal_handler(sig) == IF sig = SIGINT THEN 1 ELSE user_int

\* One SIGINT is delivered to a thread of the process, by raise(SIGINT) or
\* from outside.
Deliver ==
  /\ triggers' = triggers + 1
  /\ IF sigdisp = "handler"
     THEN /\ user_int' = signal_handler(SIGINT)
          /\ sigdisp' = IF resetHand THEN "default" ELSE "handler"
          /\ status' = status
     ELSE /\ status' = "killed"
          /\ UNCHANGED << user_int, sigdisp >>
  /\ UNCHANGED resetHand

\* An error path that reports and returns where it should call exit().
Fatal_Report(msg, outside) ==
  /\ err' = Append(err, msg)
  /\ status' = status
  /\ ioError' = (ioError \/ outside)

\* perror(msg); exit(1).  outside tells whether the failure came from
\* outside the program.
Fatal(msg, outside) ==
  /\ err' = Append(err, msg)
  /\ status' = "exit1"
  /\ ioError' = (ioError \/ outside)

(***************************************************************************)
(* The main thread: the sampling loop (lines 157 to 191), then the         *)
(* shutdown message and the teardown (lines 193 to 222).  A step is one    *)
(* access to what the threads share, with the thread's own work before it. *)
(***************************************************************************)
\* while(!user_int), line 157, reached at the start, from line 159 or on
\* the return of sleep().  The model starts no cycle beyond MaxSamples
\* records; it always lets the loop end.
MainWhile ==
  /\ status = "running" /\ pcMain \in {"while", "sleeping"}
  /\ IF user_int # 0
     THEN pcMain' = "shutdown_msg"
     ELSE NSamples < MaxSamples /\ pcMain' = "if_gen"
  /\ UNCHANGED << globals, sleepDur, cmdVars, btnVars, envVars, sigVars,
                  resVars, histVars, out, err, status >>

\* A sampler that reports whatever gen_reports holds.
MainIfGen_Always ==
  /\ status = "running" /\ pcMain = "if_gen"
  /\ pcMain' = "report"
  /\ UNCHANGED << globals, sleepDur, cmdVars, btnVars, envVars, sigVars,
                  resVars, histVars, out, err, status >>

\* A sampler whose loop ends when reporting is disabled, as with
\* while(!user_int && gen_reports).
MainIfGen_BreakOnStop ==
  /\ status = "running" /\ pcMain = "if_gen"
  /\ pcMain' = IF gen_reports # 0 THEN "report" ELSE "shutdown_msg"
  /\ UNCHANGED << globals, sleepDur, cmdVars, btnVars, envVars, sigVars,
                  resVars, histVars, out, err, status >>

\* if(gen_reports), line 159: when it is 0 the loop goes straight back to
\* line 157, without sleeping.
MainIfGen ==
  /\ status = "running" /\ pcMain = "if_gen"
  /\ pcMain' = IF gen_reports # 0 THEN "report" ELSE "while"
  /\ UNCHANGED << globals, sleepDur, cmdVars, btnVars, envVars, sigVars,
                  resVars, histVars, out, err, status >>

\* Lines 160 to 180: the record goes to stdout, then to the log when there
\* is one; a failed write to the log is fatal.
MainReport ==
  /\ status = "running" /\ pcMain = "report"
  /\ out' = Append(out, "SAMPLE")
  /\ lateSamples' = IF user_int # 0 THEN lateSamples + 1 ELSE lateSamples
  /\ stopSamples' = IF gen_reports = 0 THEN stopSamples + 1 ELSE stopSamples
  /\ awaiting' = FALSE
  /\ \/ /\ pcMain' = "sleep"
        /\ UNCHANGED << err, status, ioError >>
     \/ /\ logfile
        /\ Fatal("Couldn't write to log file", TRUE)
        /\ UNCHANGED pcMain
  /\ UNCHANGED << globals, sleepDur, cmdVars, btnVars, envVars, sigVars,
                  resVars, triggers, lateCmds >>

\* A sampler that reads period once, for its first sleep, and sleeps that
\* long ever after.
MainSleep_Cached ==
  /\ status = "running" /\ pcMain = "sleep"
  /\ sleepDur' = IF NSamples = 1 THEN ToUnsigned(period) ELSE sleepDur
  /\ pcMain' = "sleeping"
  /\ UNCHANGED << globals, cmdVars, btnVars, envVars, sigVars, resVars,
                  histVars, out, err, status >>

\* A sampler that repairs a period it cannot sleep for, storing 1.
MainSleep_Clamp ==
  /\ status = "running" /\ pcMain = "sleep"
  /\ period' = IF period <= 0 THEN 1 ELSE period
  /\ sleepDur' = ToUnsigned(period')
  /\ pcMain' = "sleeping"
  /\ UNCHANGED << user_int, gen_reports, scale, cmdVars, btnVars, envVars,
                  sigVars, resVars, histVars, out, err, status >>

\* sleep(period), line 189: period is read when the call is made.  period
\* is a plain int that get_commands writes without synchronization; the
\* load is one aligned word, made afresh for each call, so it yields the
\* value last stored.
MainSleep ==
  /\ status = "running" /\ pcMain = "sleep"
  /\ sleepDur' = ToUnsigned(period)
  /\ pcMain' = "sleeping"
  /\ UNCHANGED << globals, cmdVars, btnVars, envVars, sigVars, resVars,
                  histVars, out, err, status >>

\* A sampler that writes the shutdown message inside its loop, when it
\* sees the flag, and goes round again.
MainShutdownMsg_InLoop ==
  /\ status = "running" /\ pcMain = "shutdown_msg"
  /\ out' = Append(out, "SHUTDOWN")
  /\ pcMain' = "while"
  /\ UNCHANGED << globals, sleepDur, cmdVars, btnVars, envVars, sigVars,
                  resVars, histVars, err, status >>

\* Lines 193 to 205: the shutdown message, to stdout and to the log.
MainShutdownMsg ==
  /\ status = "running" /\ pcMain = "shutdown_msg"
  /\ out' = Append(out, "SHUTDOWN")
  /\ \/ /\ pcMain' = "close_log"
        /\ UNCHANGED << err, status, ioError >>
     \/ /\ logfile
        /\ Fatal("Couldn't write to log file", TRUE)
        /\ UNCHANGED pcMain
  /\ UNCHANGED << globals, sleepDur, cmdVars, btnVars, envVars, sigVars,
                  resVars, triggers, lateSamples, lateCmds, stopSamples,
                  awaiting >>

\* Lines 207 to 213: close(logfd) when there is a log.
MainCloseLog ==
  /\ status = "running" /\ pcMain = "close_log"
  /\ \/ /\ logOpen' = FALSE
        /\ pcMain' = "join_button"
        /\ UNCHANGED << err, status, ioError >>
     \/ /\ logfile
        /\ Fatal("Couldn't close log file", TRUE)
        /\ UNCHANGED << pcMain, logOpen >>
  /\ UNCHANGED << globals, sleepDur, cmdVars, btnVars, envVars, sigVars,
                  logfile, ioOpen, triggers, lateSamples, lateCmds,
                  stopSamples, awaiting, out >>

\* pthread_join(button_thread, NULL), line 216.
MainJoinButton ==
  /\ status = "running" /\ pcMain = "join_button"
  /\ pcBtn = "exited"
  /\ pcMain' = "join_input"
  /\ UNCHANGED << globals, sleepDur, cmdVars, btnVars, envVars, sigVars,
                  resVars, histVars, out, err, status >>

\* pthread_join(input_thread, NULL), then lines 219 to 222: the mraa
\* contexts are closed and main returns 0.
MainJoinInput ==
  /\ status = "running" /\ pcMain = "join_input"
  /\ pcCmd = "exited"
  /\ ioOpen' = FALSE
  /\ pcMain' = "returned"
  /\ status' = "exit0"
  /\ UNCHANGED << globals, sleepDur, cmdVars, btnVars, envVars, sigVars,
                  logfile, logOpen, histVars, out, err >>

(***************************************************************************)
(* The command reader thread, get_commands (lines 254 to 310).             *)
(***************************************************************************)
\* A command reader whose loop does not test user_int.
CmdWhile_NoCheck ==
  /\ status = "running" /\ pcCmd = "while"
  /\ pcCmd' = "select"
  /\ UNCHANGED << globals, mainVars, buff, nbytes, input, btnVars, envVars,
                  sigVars, resVars, histVars, out, err, status >>

\* while(!user_int), line 263; return NULL at line 309.  Otherwise the
\* thread enters select(), line 271.
CmdWhile ==
  /\ status = "running" /\ pcCmd = "while"
  /\ pcCmd' = IF user_int # 0 THEN "exited" ELSE "select"
  /\ UNCHANGED << globals, mainVars, buff, nbytes, input, btnVars, envVars,
                  sigVars, resVars, histVars, out, err, status >>

\* select() returns 0: the 10 ms passed without input.
CmdSelectTimeout ==
  /\ status = "running" /\ pcCmd = "select"
  /\ pcCmd' = "while"
  /\ UNCHANGED << globals, mainVars, buff, nbytes, input, btnVars, envVars,
                  sigVars, resVars, histVars, out, err, status >>

\* select() returned -1, lines 304 to 307: a signal handler ran in this
\* thread while it waited (EINTR; select is never restarted).
CmdSelectFailed ==
  /\ status = "running" /\ pcCmd = "select_failed"
  /\ Fatal("Select failed", FALSE)
  /\ UNCHANGED << globals, mainVars, cmdVars, btnVars, envVars, sigVars,
                  resVars, triggers, lateSamples, lateCmds, stopSamples,
                  awaiting, out >>

\* select() returns 1 and nbytes = read(0, buff, 128) returns a chunk
\* (lines 272 to 280); then, lines 281 to 286, the bytes read are written
\* to the log when fd > 0.  That write fails when main has closed the
\* descriptor, or for a reason outside the program.
CmdRead ==
  /\ status = "running" /\ pcCmd = "select"
  /\ input # << >>
  /\ input' = Tail(input)
  /\ \/ /\ buff' = ReadInto(buff, Head(input))
        /\ nbytes' = Len(Head(input))
        /\ \/ /\ fd > 0 => logOpen
              /\ pcCmd' = "parse"
              /\ UNCHANGED << err, status, ioError >>
           \/ /\ fd > 0
              /\ Fatal("Failed to log command", logOpen)
              /\ UNCHANGED pcCmd
     \/ /\ Fatal("Failed to read from stdin", TRUE)
        /\ nbytes' = -1
        /\ UNCHANGED << pcCmd, buff >>
  /\ UNCHANGED << globals, mainVars, btnVars, envVars, sigVars, resVars,
                  triggers, lateSamples, lateCmds, stopSamples, awaiting,
                  out >>

\* The chain of strncmp at lines 287 to 302, on buff as it stands.
CmdParse ==
  /\ status = "running" /\ pcCmd = "parse"
  /\ IF StrncmpEq(<<"O", "F", "F">>, buff, 3)
     THEN \* raise(SIGINT); pthread_exit(NULL);
          /\ Deliver
          /\ pcCmd' = IF status' = "running" THEN "exited" ELSE pcCmd
          /\ UNCHANGED << gen_reports, period, scale, err, stopSamples,
                          awaiting >>
     ELSE /\ pcCmd' = "while"
          /\ UNCHANGED << user_int, sigVars, status, triggers >>
          /\ IF StrncmpEq(<<"S", "T", "O", "P">>, buff, 4)
             THEN /\ gen_reports' = 0
                  /\ stopSamples' = IF gen_reports # 0 THEN 0 ELSE stopSamples
                  /\ awaiting' = FALSE
                  /\ UNCHANGED << period, scale, err >>
             ELSE IF StrncmpEq(<<"S", "T", "A", "R", "T">>, buff, 5)
             THEN /\ gen_reports' = 1
                  /\ stopSamples' = 0
                  /\ awaiting' = (awaiting \/ gen_reports = 0)
                  /\ UNCHANGED << period, scale, err >>
             ELSE IF StrncmpEq(<<"S", "C", "A", "L", "E", "=", "F">>, buff, 7)
             THEN /\ scale' = "F"
                  /\ UNCHANGED << gen_reports, period, err, stopSamples,
                                  awaiting >>
             ELSE IF StrncmpEq(<<"S", "C", "A", "L", "E", "=", "C">>, buff, 7)
             THEN /\ scale' = "C"
                  /\ UNCHANGED << gen_reports, period, err, stopSamples,
                                  awaiting >>
             ELSE IF StrncmpEq(<<"P", "E", "R", "I", "O", "D", "=">>, buff, 7)
             THEN /\ period' = Atoi(buff, 7)
                  /\ UNCHANGED << gen_reports, scale, err, stopSamples,
                                  awaiting >>
             ELSE /\ err' = Append(err, "Bad command")
                  /\ UNCHANGED << gen_reports, period, scale, stopSamples,
                                  awaiting >>
  /\ lateCmds' = IF user_int # 0 THEN lateCmds + 1 ELSE lateCmds
  /\ UNCHANGED << mainVars, buff, nbytes, input, btnVars, envVars, resVars,
                  ioError, lateSamples, out >>

(***************************************************************************)
(* The button watcher thread, check_button (lines 312 to 326).             *)
(***************************************************************************)
\* while(!user_int), line 318, reached at the start or on the return of
\* nanosleep(); return NULL at line 325.
BtnWhile ==
  /\ status = "running" /\ pcBtn \in {"while", "nanosleep"}
  /\ pcBtn' = IF user_int # 0 THEN "exited" ELSE "read"
  /\ UNCHANGED << globals, mainVars, cmdVars, envVars, sigVars, resVars,
                  histVars, out, err, status >>

\* A button watcher that takes no notice of the level it reads.
BtnRead_Ignore ==
  /\ status = "running" /\ pcBtn = "read"
  /\ pcBtn' = "nanosleep"
  /\ UNCHANGED << globals, mainVars, cmdVars, envVars, sigVars, resVars,
                  histVars, out, err, status >>

\* Lines 319 to 323: a level other than 0 raises SIGINT and ends the
\* thread; otherwise the thread enters nanosleep().
BtnRead ==
  /\ status = "running" /\ pcBtn = "read"
  /\ IF button # 0
     THEN /\ Deliver
          /\ pcBtn' = IF status' = "running" THEN "exited" ELSE pcBtn
     ELSE /\ pcBtn' = "nanosleep"
          /\ UNCHANGED << user_int, sigVars, status, triggers >>
  /\ UNCHANGED << gen_reports, period, scale, mainVars, cmdVars, envVars,
                  resVars, ioError, lateSamples, lateCmds, stopSamples,
                  awaiting, out, err >>

(***************************************************************************)
(* The environment: the button and the SIGINTs sent from outside.          *)
(***************************************************************************)
ButtonPress ==
  /\ status = "running" /\ button = 0 /\ presses < MaxPresses
  /\ button' = 1
  /\ presses' = presses + 1
  /\ UNCHANGED << globals, mainVars, cmdVars, btnVars, sigints, sigVars,
                  resVars, histVars, out, err, status >>

ButtonRelease ==
  /\ status = "running" /\ button = 1
  /\ button' = 0
  /\ UNCHANGED << globals, mainVars, cmdVars, btnVars, presses, sigints,
                  sigVars, resVars, histVars, out, err, status >>

Threads == {"main", "cmd", "btn"}

Alive(t) ==
  CASE t = "main" -> TRUE
    [] t = "cmd" -> pcCmd # "exited"
    [] t = "btn" -> pcBtn # "exited"

\* A SIGINT sent to the process is delivered to one of its threads, t (no
\* thread blocks it), and the handler runs in t.  A select() that t waits
\* in then returns -1; a sleep() or nanosleep() returns early, which the
\* thread does not tell from a return in time.
ExtSigint(t) ==
  /\ status = "running" /\ sigints < MaxSigints
  /\ Alive(t)
  /\ sigints' = sigints + 1
  /\ Deliver
  /\ pcCmd' = IF t = "cmd" /\ pcCmd = "select" /\ status' = "running"
              THEN "select_failed" ELSE pcCmd
  /\ UNCHANGED << gen_reports, period, scale, mainVars, buff, nbytes, input,
                  btnVars, button, presses, resVars, ioError, lateSamples,
                  lateCmds, stopSamples, awaiting, out, err >>

MainStep ==
  \/ MainWhile \/ MainIfGen \/ MainReport \/ MainSleep \/ MainShutdownMsg
  \/ MainCloseLog \/ MainJoinButton \/ MainJoinInput

CmdStep ==
  CmdWhile \/ CmdSelectTimeout \/ CmdSelectFailed \/ CmdRead \/ CmdParse

BtnStep == BtnWhile \/ BtnRead

EnvStep == ButtonPress \/ ButtonRelease \/ \E t \in Threads : ExtSigint(t)

Next == MainStep \/ CmdStep \/ BtnStep \/ EnvStep

Spec == Init /\ [][Next]_vars

\* The three threads are preemptively scheduled: one that can take a step
\* eventually takes one.
FairSpec ==
  Spec /\ WF_vars(MainStep) /\ WF_vars(CmdStep) /\ WF_vars(BtnStep)

\* The runs in which reporting can be stopped and started again: those on
\* the input stream STOP, START, OFF.
ResumeInit == Init /\ input = << Stop, Start, Off >>

ResumeSpec ==
  ResumeInit /\ [][Next]_vars
    /\ WF_vars(MainStep) /\ WF_vars(CmdStep) /\ WF_vars(BtnStep)

\* The runs on the input streams of ReaderScripts.
ReaderInit == InitOn(ReaderStarts)

ReaderSpec == ReaderInit /\ [][Next]_vars

(***************************************************************************)
(* Properties.                                                             *)
(***************************************************************************)
\* Where the main thread is while its sampling loop has not ended.
InLoop == pcMain \in {"while", "if_gen", "report", "sleep", "sleeping"}

\* C1: when shutdown has been triggered more than once (button, OFF and
\* SIGINT in any combination) and no I/O call failed for an outside reason,
\* the process does not end other than by main returning 0, and when it
\* has ended exactly one Shutdown Record is on stdout.
C1_RepeatedTriggerOrderly ==
  (triggers >= 2 /\ ~ioError) =>
    /\ status \in {"running", "exit0"}
    /\ NShutdown <= 1
    /\ status = "exit0" => NShutdown = 1

\* C2: the Shutdown Record is on stdout at most once, only when the
\* sampling loop has ended, and it is the last record there.
C2_ShutdownRecordLast ==
  /\ NShutdown <= 1
  /\ NShutdown = 1 => (out[Len(out)] = "SHUTDOWN" /\ ~InLoop)

C2_Witness ==
  status = "exit0" /\ NSamples = MaxSamples /\ NShutdown = 1

\* C3: under fair scheduling, once user_int is set the sampling loop and
\* both threads end, the Shutdown Record is written and main returns 0,
\* unless the process takes a fatal exit, exit(1), on the way.
C3_ShutdownCompletes ==
  (user_int # 0) ~>
    \/ status = "exit1"
    \/ /\ status = "exit0" /\ NShutdown = 1
       /\ pcCmd = "exited" /\ pcBtn = "exited"

\* C4: after a SIGINT from outside, whichever thread it reached and
\* wherever that thread was, the process never ends through exit(1) or by
\* the signal, unless an I/O call fails for an outside reason, and when it
\* has ended exactly one Shutdown Record is on stdout.
C4_SigintOrderly ==
  (sigints >= 1 /\ ~ioError) =>
    /\ status \in {"running", "exit0"}
    /\ status = "exit0" => NShutdown = 1

\* C5: user_int is 0 at the start and, once set, stays set at every step
\* of every thread and handler.
C5_FlagWriteOnce ==
  (user_int = 0) /\ [][user_int # 0 => user_int' # 0]_vars

C5_Witness == user_int # 0 /\ triggers = 2 + MaxSigints /\ status = "running"

\* C6: after user_int is set the sampler writes at most one Sample Record
\* and the command reader applies at most one chunk: the cycle each had
\* begun before the flag was set.
C6_NoNewCycle == lateSamples <= 1 /\ lateCmds <= 1

C6_Witness == lateSamples = 1 /\ lateCmds = 1

\* C7: no I/O resource is released while the command reader or the button
\* watcher still runs: the log descriptor is closed, and the mraa contexts
\* are closed, only when both threads have ended.
C7_TeardownAfterJoin ==
  ((logfile /\ ~logOpen) \/ ~ioOpen) =>
    (pcCmd = "exited" /\ pcBtn = "exited")

\* C8: while reporting is disabled by STOP the sampler writes at most one
\* Sample Record (the one whose test of gen_reports came before the STOP),
\* and its loop goes on unless shutdown is requested.
C8_StopSuppresses ==
  gen_reports = 0 =>
    /\ stopSamples <= 1
    /\ (user_int = 0 /\ status = "running") => InLoop

C8_Witness ==
  gen_reports = 0 /\ stopSamples = 1 /\ pcMain = "if_gen" /\ user_int = 0

\* C9: under fair scheduling, after START re-enables reporting a Sample
\* Record is eventually written unless shutdown is requested, reporting is
\* stopped again or the process ends (awaiting is cleared by the record or
\* by a STOP); and every pass of the loop that finds reporting enabled
\* writes exactly one record before it sleeps, no other step writing any.
C9_StartResumes ==
  /\ (awaiting /\ NSamples < MaxSamples) ~>
       (~awaiting \/ user_int # 0 \/ status # "running")
  /\ [][(pcMain = "if_gen" /\ gen_reports # 0 /\ pcMain' # pcMain) =>
          pcMain' = "report"]_vars
  /\ [][(pcMain = "report" /\ (pcMain' # pcMain \/ out' # out)) =>
          /\ out' = Append(out, "SAMPLE")
          /\ pcMain' = "sleep" \/ status' = "exit1"]_vars
  /\ [][out' # out => pcMain \in {"report", "shutdown_msg"}]_vars

C9_Witness ==
  /\ ~awaiting /\ gen_reports # 0 /\ user_int = 0 /\ input = << Off >>
  /\ pcCmd = "select"
  /\ pcMain = "sleeping" /\ NSamples = MaxSamples

\* C10: every sleep of the sampler lasts the value period holds when the
\* sleep starts, and a PERIOD= command applied during a sleep leaves that
\* sleep's duration as it was.
C10_PeriodAtNextSleep ==
  [][/\ (pcMain' = "sleeping" /\ pcMain # "sleeping") =>
          sleepDur' = ToUnsigned(period)
     /\ (pcMain = "sleeping" /\ pcMain' = "sleeping") =>
          sleepDur' = sleepDur]_vars

C10_Witness ==
  /\ pcMain = "sleeping" /\ sleepDur = ToUnsigned(5) /\ period = 0
  /\ NSamples = 2

\* The bytes the last read() returned: the first nbytes bytes of buff.
Chunk == SubSeq(buff, 1, nbytes)

\* The chunk c begins with all the bytes of the literal lit.
HasPrefix(lit, c) ==
  Len(c) >= Len(lit) /\ \A i \in 1..Len(lit) : c[i] = lit[i]

\* The command a chunk carries: the first of the prefixes, in the order of
\* lines 287 to 298, that the chunk begins with.
Command(c) ==
  IF HasPrefix(<<"O", "F", "F">>, c) THEN "OFF"
  ELSE IF HasPrefix(<<"S", "T", "O", "P">>, c) THEN "STOP"
  ELSE IF HasPrefix(<<"S", "T", "A", "R", "T">>, c) THEN "START"
  ELSE IF HasPrefix(<<"S", "C", "A", "L", "E", "=", "F">>, c) THEN "SCALE=F"
  ELSE IF HasPrefix(<<"S", "C", "A", "L", "E", "=", "C">>, c) THEN "SCALE=C"
  ELSE IF HasPrefix(<<"P", "E", "R", "I", "O", "D", "=">>, c) THEN "PERIOD="
  ELSE "unrecognized"

\* A step in which get_commands has finished with the chunk it read.
Applies == pcCmd = "parse" /\ pcCmd' # pcCmd

\* C11: a chunk of at least one byte that begins with none of the six
\* prefixes adds exactly one diagnostic to stderr, leaves user_int,
\* gen_reports, period and scale as they were, and leaves the process
\* running and the command reader back at the head of its loop.
C11_UnrecognizedRejected ==
  [][(Applies /\ nbytes > 0 /\ Command(Chunk) = "unrecognized") =>
       /\ err' = Append(err, "Bad command")
       /\ globals' = globals
       /\ status' = "running"
       /\ pcCmd' = "while"]_vars

\* C12: what get_commands does with a chunk is what the command the chunk
\* carries asks for: OFF sets user_int and ends the thread, STOP and START
\* set gen_reports to 0 and 1, SCALE=F and SCALE=C set scale, PERIOD=
\* sets period to the number that follows in the chunk; a command changes
\* no field but its own, and a chunk without a command changes none.
C12_AppliesReference ==
  [][(Applies /\ nbytes > 0) =>
       LET k == Command(Chunk) IN
       /\ k = "OFF" =>
            /\ user_int' # 0 /\ pcCmd' = "exited"
            /\ UNCHANGED << gen_reports, period, scale >>
       /\ k = "STOP" =>
            gen_reports' = 0 /\ UNCHANGED << user_int, period, scale >>
       /\ k = "START" =>
            gen_reports' = 1 /\ UNCHANGED << user_int, period, scale >>
       /\ k = "SCALE=F" =>
            scale' = "F" /\ UNCHANGED << user_int, gen_reports, period >>
       /\ k = "SCALE=C" =>
            scale' = "C" /\ UNCHANGED << user_int, gen_reports, period >>
       /\ k = "PERIOD=" =>
            /\ period' = Atoi(Chunk, 7)
            /\ UNCHANGED << user_int, gen_reports, scale >>
       /\ k = "unrecognized" => UNCHANGED globals]_vars

\* C13: under fair scheduling, once the button has been pressed, for
\* however short a time, shutdown is requested (or the process has ended).
C13_AnyPressShutsDown ==
  (presses >= 1) ~> (user_int # 0 \/ status # "running")

\* C13, amended: a press leads to shutdown being requested when the button
\* is down at a poll of the button watcher: the poll that reads a level
\* other than 0 leaves user_int set and ends the watcher.
C13_PolledPressShutsDown ==
  [][(pcBtn = "read" /\ button # 0 /\ pcBtn' # pcBtn) =>
       (user_int' # 0 /\ pcBtn' = "exited")]_vars

C13_Witness ==
  /\ presses = 1 /\ button = 1 /\ pcBtn = "exited" /\ user_int # 0
  /\ triggers = 1 /\ sigints = 0 /\ pcCmd = "select" /\ status = "running"

\* C14: a pass of the sampling loop that finds reporting disabled goes on
\* to sleep(period), as a pass that writes a record does, before the loop
\* tests user_int again.
C14_SleepsWhenDisabled ==
  [][(pcMain = "if_gen" /\ gen_reports = 0 /\ pcMain' # pcMain) =>
       pcMain' = "sleep"]_vars

\* The diagnostics of the failed I/O calls: the write to the log (lines
\* 177 and 201), the read of stdin (278), the write of a command to the
\* log (283) and the close of the log (210).
IoFatal ==
  { "Couldn't write to log file", "Failed to read from stdin",
    "Failed to log command", "Couldn't close log file" }

C16_SingleWriter ==
  /\ [][<< gen_reports, period, scale >>' # << gen_reports, period, scale >>
          => (pcCmd = "parse" /\ pcCmd' = "while")]_vars
  /\ [][(triggers' # triggers /\ sigdisp = "handler") =>
          /\ user_int' = 1
          /\ UNCHANGED << gen_reports, period, scale, out, err, buff, nbytes,
                          input, sleepDur, pcMain, resVars, status >>]_vars

C16_Witness ==
  /\ period = 5 /\ user_int = 1 /\ sigints = 1 /\ triggers = 1
  /\ NSamples = MaxSamples /\ pcMain = "join_button" /\ status = "running"

\* C17: period is greater than 0 in every state, whatever PERIOD= commands
\* have been applied.
C17_PeriodPositive == period > 0

\* C18: what get_commands does with a chunk depends on the bytes of that
\* chunk only: a read of no byte changes no global and writes nothing to
\* stderr; a command is applied only when the chunk itself begins with its
\* prefix; and the period a PERIOD= chunk sets is the number in the chunk.
C18_ChunkAlone ==
  [][Applies =>
       /\ nbytes = 0 => (globals' = globals /\ err' = err)
       /\ (nbytes > 0 /\ err' = err) => Command(Chunk) # "unrecognized"
       /\ period' # period => period' = Atoi(Chunk, 7)]_vars

\* C19: the process never ends through the command reader's failed write
\* of a command to the log unless that write failed for a reason outside
\* the program: get_commands never writes to a descriptor main has closed.
C19_NoWriteAfterClose ==
  ~ /\ status = "exit1" /\ ~ioError
    /\ err # << >> /\ err[Len(err)] = "Failed to log command"

\* C20: a sleep the sampler starts while period is 0 or negative is a
\* sleep of 0 seconds.
C20_NonPositiveNoSleep ==
  [][(pcMain = "sleep" /\ pcMain' = "sleeping" /\ period <= 0) =>
       (sleepDur'.hi = 0 /\ sleepDur'.lo = 0)]_vars

====
